---- MODULE Spec2Model ----
(***************************************************************************)
(* Model of src/src/analytics.py: KPIEngine (calculate_kpis,               *)
(* get_partner_performance, get_campaign_performance) and                  *)
(* DataQuality.run_checks, applied to one DataFrame df.                    *)
(*                                                                         *)
(* Numbers.  Metric cells are integers (revenue and commission_paid are    *)
(* counted in whole currency units); a missing cell is the sentinel NaN.   *)
(* A float that results from a division is an exact fraction               *)
(* [num, den] in lowest terms with den >= 0, where den = 0 encodes the     *)
(* IEEE specials: 0/0 is NaN, 1/0 is +inf and -1/0 is -inf.  Rounding of   *)
(* binary floating point is not modelled.                                  *)
(***************************************************************************)
EXTENDS Integers, Sequences, FiniteSets, TLC

(* ---------------------------------------------------------------------- *)
(* Bounds of the model                                                     *)
(* ---------------------------------------------------------------------- *)
\* longest frame built from CoreRecords row by row
MaxRows == 2
\* a long frame is MaxRepeat-1 or MaxRepeat copies of one row, then one row
MaxRepeat == 10
\* most rows of the traffic table and of the conversions table
MaxTraffic == 2
MaxConversions == 1

(* ---------------------------------------------------------------------- *)
(* Cells                                                                   *)
(* ---------------------------------------------------------------------- *)
\* a missing numeric cell (float NaN of a column read from the database)
NaN == -999
\* a missing text cell (None of an object column)
None == "None"

\* the text columns of the frame; every other column is numeric
TextColumns == {"partner_name", "vertical", "campaign_name", "landing_page_variant"}

\* the other columns whose missing cell is None (NaT for the date)
TrafficTextColumns == {"date", "device_type", "channel"}

\* df.isnull() on the cell of column c of row r
isnull(r, c) ==
  IF c \in TextColumns \cup TrafficTextColumns THEN r[c] = None ELSE r[c] = NaN

\* Python's string order on the names used here
StrRank(s) ==
  CASE s = "A" -> 1
    [] s = "Amazon" -> 2
    [] s = "B" -> 3
    [] s = "Fashion" -> 4
    [] s = "Summer" -> 5
    [] s = "Tech" -> 6
    [] s = "Winter" -> 7
    [] s = "Zappos" -> 8
    [] OTHER -> 0

(* ---------------------------------------------------------------------- *)
(* Floats                                                                  *)
(* ---------------------------------------------------------------------- *)
Abs(x) == IF x < 0 THEN -x ELSE x

Sign(x) == IF x < 0 THEN -1 ELSE IF x > 0 THEN 1 ELSE 0

RECURSIVE Gcd(_, _)
Gcd(a, b) == IF b = 0 THEN a ELSE Gcd(b, a % b)

\* the float a / b of numpy's true division: b = 0 gives NaN or +-inf
TrueDiv(a, b) ==
  IF b = 0 THEN [num |-> Sign(a), den |-> 0]
  ELSE LET g == Gcd(Abs(a), Abs(b))
       IN  [num |-> (Sign(b) * a) \div g, den |-> Abs(b) \div g]

Zero == [num |-> 0, den |-> 1]

IsNaN(q) == q.den = 0 /\ q.num = 0

IsInf(q) == q.den = 0 /\ q.num # 0

IsFinite(q) == q.den > 0

(* ---------------------------------------------------------------------- *)
(* The frame: rows of the joined query                                     *)
(* ---------------------------------------------------------------------- *)
\* campaigns JOIN partners: the four text columns a campaign_id brings along.
\* partner_name, campaign_name are nullable TEXT columns of the schema.
Campaigns ==
  [id \in 1..4 |->
    CASE id = 1 -> [campaign_name |-> "Winter", landing_page_variant |-> "B",
                    partner_name |-> "Zappos", vertical |-> "Fashion"]
      [] id = 2 -> [campaign_name |-> "Summer", landing_page_variant |-> "A",
                    partner_name |-> "Amazon", vertical |-> "Tech"]
      [] id = 3 -> [campaign_name |-> "Summer", landing_page_variant |-> "B",
                    partner_name |-> "Amazon", vertical |-> "Tech"]
      [] OTHER  -> [campaign_name |-> None, landing_page_variant |-> "A",
                    partner_name |-> None, vertical |-> "Tech"]]

\* one row of the SELECT of DataLoader.get_data (date, device_type and channel
\* are read by no operation but the count of missing cells)
Row(id, imp, clk, ord, rev, com) ==
  [date |-> "2024-01-01", device_type |-> "mobile", channel |-> "email",
   campaign_id |-> id, impressions |-> imp, clicks |-> clk, orders |-> ord,
   revenue |-> rev, commission_paid |-> com,
   partner_name |-> Campaigns[id].partner_name,
   vertical |-> Campaigns[id].vertical,
   campaign_name |-> Campaigns[id].campaign_name,
   landing_page_variant |-> Campaigns[id].landing_page_variant]

Columns ==
  {"date", "device_type", "channel", "campaign_id", "impressions", "clicks", "orders", "revenue", "commission_paid",
   "partner_name", "vertical", "campaign_name", "landing_page_variant"}

\* every row a one-row frame is drawn from
Records ==
  {Row(id, imp, clk, ord, rev, com) :
     id \in 1..4, imp \in {0, 50, 100, NaN}, clk \in {0, 10, NaN},
     ord \in {0, 1}, rev \in {-5, 0, 20, 40}, com \in {-2, 0, 4}}

\* the rows the frames of two and more rows are built from
CoreRecords ==
  {Row(id, imp, clk, 1, 20, 4) : id \in 1..3, imp \in {50, 100}, clk \in {0, 10}}

\* the last row of a long frame
TailRecords ==
  {Row(id, imp, clk, 1, 40, com) :
     id \in {2, 4}, imp \in {0, 50, 100, NaN}, clk \in {0, 10, NaN}, com \in {-2, 0, 4}}

Repeat(r, k) == [i \in 1..k |-> r]

ShortFrames == {<<>>} \cup {<<r>> : r \in Records}

CoreFrames == UNION {[1..n -> CoreRecords] : n \in 2..MaxRows}

LongFrames ==
  {Repeat(f, k) \o <<r>> :
     f \in {c \in CoreRecords : c["campaign_id"] = 1}, r \in TailRecords,
     k \in (MaxRepeat - 1)..MaxRepeat}

\* row r with the cells of the columns cols missing
Blank(r, cols) ==
  [c \in DOMAIN r |->
     IF c \notin cols THEN r[c]
     ELSE IF c \in TextColumns \cup TrafficTextColumns THEN None ELSE NaN]

\* a frame whose revenue column is revs
RevenueFrame(id, revs) == [i \in DOMAIN revs |-> Row(id, 100, 10, 1, revs[i], 4)]

\* a long frame followed by one row without positive revenue
MixedFrames ==
  {Repeat(f, k) \o <<Row(2, 100, 10, 1, 40, 4), Row(2, 100, 10, 0, z, 0)>> :
     f \in {c \in CoreRecords : c["campaign_id"] = 1}, z \in {-5, 0},
     k \in (MaxRepeat - 1)..MaxRepeat}

\* 1 to MaxRepeat equal revenues and one apart
StepFrames ==
  {Repeat(Row(1, 100, 10, 1, 20, 4), k) \o <<Row(2, 100, 10, 1, rev, 4)>> :
     rev \in {40, 400}, k \in 1..MaxRepeat}

\* single frames: clicks = 20 over impressions = 10, missing cells in the
\* traffic columns, and two revenue columns
ExampleFrames ==
  {<<Row(2, 10, 20, 0, 0, 0)>>,
   <<Blank(Row(2, 100, 10, 1, 20, 4), {"date", "channel"})>>,
   <<Blank(Row(1, 100, 10, 1, 20, 4), {"device_type"}),
     Blank(Row(4, 0, 10, 0, -5, -2), {"date", "orders"})>>}
  \cup {RevenueFrame(id, <<10, 10, 10, 10, 1000>>) : id \in 1..2}
  \cup {RevenueFrame(id, <<10, 10, 10>>) : id \in 1..2}

Frames ==
  ShortFrames \cup CoreFrames \cup LongFrames \cup MixedFrames \cup StepFrames
    \cup ExampleFrames

(* ---------------------------------------------------------------------- *)
(* KPIEngine                                                               *)
(* ---------------------------------------------------------------------- *)
MetricColumns == {"impressions", "clicks", "orders", "revenue", "commission_paid"}

RECURSIVE SumCells(_, _, _)
\* the 'sum' aggregation of column c over the rows I of d: missing cells are skipped
SumCells(d, I, c) ==
  IF I = {} THEN 0
  ELSE LET i == CHOOSE j \in I : TRUE
       IN  (IF d[i][c] = NaN THEN 0 ELSE d[i][c]) + SumCells(d, I \ {i}, c)

\* df.agg({... 'sum'}) / the .agg of a group
agg(d, I) == [c \in MetricColumns |-> SumCells(d, I, c)]

\* safe_div guarding against b == 0 only
safe_div_nonzero(a, b) == IF b # 0 THEN TrueDiv(a, b) ELSE Zero

safe_div(a, b) == IF b > 0 THEN TrueDiv(a, b) ELSE Zero

\* calculate_kpis dividing orders by the impressions total
calculate_kpis_wrongden(d) ==
  LET metrics == agg(d, DOMAIN d)
  IN  [kpis |->
         [CTR |-> safe_div(metrics["clicks"], metrics["impressions"]),
          Conversion_Rate |-> safe_div(metrics["orders"], metrics["impressions"]),
          EPC |-> safe_div(metrics["revenue"], metrics["clicks"]),
          AOV |-> safe_div(metrics["revenue"], metrics["orders"]),
          ROI |-> safe_div(metrics["revenue"] - metrics["commission_paid"],
                           metrics["commission_paid"])],
       metrics |-> metrics]

calculate_kpis(d) ==
  LET metrics == agg(d, DOMAIN d)
  IN  [kpis |->
         [CTR |-> safe_div(metrics["clicks"], metrics["impressions"]),
          Conversion_Rate |-> safe_div(metrics["orders"], metrics["clicks"]),
          EPC |-> safe_div(metrics["revenue"], metrics["clicks"]),
          AOV |-> safe_div(metrics["revenue"], metrics["orders"]),
          ROI |-> safe_div(metrics["revenue"] - metrics["commission_paid"],
                           metrics["commission_paid"])],
       metrics |-> metrics]

\* the keys groupby keeps: dropna=True drops a row with a missing key cell
GroupKeys(d, k1, k2) ==
  {<<d[i][k1], d[i][k2]>> : i \in {j \in DOMAIN d : d[j][k1] # None /\ d[j][k2] # None}}

KeyLess(a, b) ==
  \/ StrRank(a[1]) < StrRank(b[1])
  \/ StrRank(a[1]) = StrRank(b[1]) /\ StrRank(a[2]) < StrRank(b[2])

RECURSIVE SortKeysDescending(_)
\* the group keys in descending order
SortKeysDescending(S) ==
  IF S = {} THEN <<>>
  ELSE LET m == CHOOSE x \in S : \A y \in S \ {x} : KeyLess(y, x)
       IN  <<m>> \o SortKeysDescending(S \ {m})

RECURSIVE SortKeys(_)
\* groupby's sort=True: the group keys in ascending order
SortKeys(S) ==
  IF S = {} THEN <<>>
  ELSE LET m == CHOOSE x \in S : \A y \in S \ {x} : KeyLess(x, y)
       IN  <<m>> \o SortKeys(S \ {m})

\* a grouping that collects the rows of a group by the first key column alone
groupby_agg_firstkey(d, k1, k2) ==
  LET keys == SortKeys(GroupKeys(d, k1, k2))
  IN  [n \in 1..Len(keys) |->
         (k1 :> keys[n][1]) @@ (k2 :> keys[n][2]) @@
         agg(d, {i \in DOMAIN d : d[i][k1] = keys[n][1]})]

\* df.groupby([k1, k2]).agg({... 'sum'}).reset_index()
groupby_agg(d, k1, k2) ==
  LET keys == SortKeys(GroupKeys(d, k1, k2))
  IN  [n \in 1..Len(keys) |->
         (k1 :> keys[n][1]) @@ (k2 :> keys[n][2]) @@
         agg(d, {i \in DOMAIN d : d[i][k1] = keys[n][1] /\ d[i][k2] = keys[n][2]})]

RatioColumns == {"CTR", "Conversion_Rate", "EPC", "AOV", "ROI"}

\* grouped.fillna(0): every missing cell of the table becomes 0; inf is not missing
fillna(row) ==
  [c \in DOMAIN row |->
     IF c \in RatioColumns THEN (IF IsNaN(row[c]) THEN Zero ELSE row[c])
     ELSE IF c \in TextColumns THEN (IF row[c] = None THEN 0 ELSE row[c])
     ELSE (IF row[c] = NaN THEN 0 ELSE row[c])]

get_partner_performance(d) ==
  LET grouped == groupby_agg(d, "partner_name", "vertical")
  IN  [n \in DOMAIN grouped |->
         LET g == grouped[n]
         IN  fillna(g @@
               [CTR |-> TrueDiv(g["clicks"], g["impressions"]),
                Conversion_Rate |-> TrueDiv(g["orders"], g["clicks"]),
                EPC |-> TrueDiv(g["revenue"], g["clicks"]),
                AOV |-> TrueDiv(g["revenue"], g["orders"]),
                ROI |-> TrueDiv(g["revenue"] - g["commission_paid"],
                                g["commission_paid"])])]

\* the campaign table with the AOV column of the partner table
get_campaign_performance_withAOV(d) ==
  LET grouped == groupby_agg(d, "campaign_name", "landing_page_variant")
  IN  [n \in DOMAIN grouped |->
         LET g == grouped[n]
         IN  fillna(g @@
               [CTR |-> TrueDiv(g["clicks"], g["impressions"]),
                Conversion_Rate |-> TrueDiv(g["orders"], g["clicks"]),
                EPC |-> TrueDiv(g["revenue"], g["clicks"]),
                AOV |-> TrueDiv(g["revenue"], g["orders"]),
                ROI |-> TrueDiv(g["revenue"] - g["commission_paid"],
                                g["commission_paid"])])]

get_campaign_performance(d) ==
  LET grouped == groupby_agg(d, "campaign_name", "landing_page_variant")
  IN  [n \in DOMAIN grouped |->
         LET g == grouped[n]
         IN  fillna(g @@
               [CTR |-> TrueDiv(g["clicks"], g["impressions"]),
                Conversion_Rate |-> TrueDiv(g["orders"], g["clicks"]),
                EPC |-> TrueDiv(g["revenue"], g["clicks"]),
                ROI |-> TrueDiv(g["revenue"] - g["commission_paid"],
                                g["commission_paid"])])]

(* ---------------------------------------------------------------------- *)
(* DataQuality                                                             *)
(* ---------------------------------------------------------------------- *)
\* a > b on two cells: a comparison with a missing cell is False
Gt(a, b) == a # NaN /\ b # NaN /\ a > b

Lt(a, b) == a # NaN /\ b # NaN /\ a < b

\* df[df['clicks'] > df['impressions']]
invalid_ctr(d) == {i \in DOMAIN d : Gt(d[i]["clicks"], d[i]["impressions"])}

\* df[(df['revenue'] < 0) | (df['commission_paid'] < 0)]
neg_val(d) ==
  {i \in DOMAIN d : Lt(d[i]["revenue"], 0) \/ Lt(d[i]["commission_paid"], 0)}

\* the number of rows with a missing cell, df.isnull().any(axis=1).sum()
nulls_rows(d) == Cardinality({i \in DOMAIN d : \E c \in Columns : isnull(d[i], c)})

\* df.isnull().sum().sum()
nulls(d) == Cardinality({<<i, c>> \in (DOMAIN d) \X Columns : isnull(d[i], c)})

\* df[df['revenue'] > 0]['revenue']
rev_data(d) == {i \in DOMAIN d : Gt(d[i]["revenue"], 0)}

RECURSIVE SumSq(_, _, _, _)
\* sum over I of (n * revenue - s)^2, which is n^2 times the sum of squared
\* deviations from the mean s / n
SumSq(d, I, n, s) ==
  IF I = {} THEN 0
  ELSE LET i == CHOOSE j \in I : TRUE
           dev == n * d[i]["revenue"] - s
       IN  dev * dev + SumSq(d, I \ {i}, n, s)

\* an outlier test with the threshold 2: z_scores.abs() > 2
outliers_over2(d) ==
  LET I == rev_data(d)
      n == Cardinality(I)
      s == SumCells(d, I, "revenue")
      ss == SumSq(d, I, n, s)
  IN  {i \in I :
         /\ n > 1
         /\ ss > 0
         /\ (n - 1) * (n * d[i]["revenue"] - s) * (n * d[i]["revenue"] - s) > 4 * ss}

\* an outlier test over every record with a revenue: rev_data = df['revenue']
outliers_all_records(d) ==
  LET I == {i \in DOMAIN d : d[i]["revenue"] # NaN}
      n == Cardinality(I)
      s == SumCells(d, I, "revenue")
      ss == SumSq(d, I, n, s)
  IN  {i \in I :
         /\ n > 1
         /\ ss > 0
         /\ (n - 1) * (n * d[i]["revenue"] - s) * (n * d[i]["revenue"] - s) > 9 * ss}

\* an outlier test that leaves out the division by std: (rev_data - mean).abs() > 3
outliers_nodiv(d) ==
  LET I == rev_data(d)
      n == Cardinality(I)
      s == SumCells(d, I, "revenue")
  IN  {i \in I : Abs(n * d[i]["revenue"] - s) > 3 * n}

\* z_scores.abs() > 3 with mean = s / n and std^2 = SumSq / (n^2 * (n - 1)):
\* |x - mean| / std > 3  iff  (n - 1) * (n * x - s)^2 > 9 * SumSq when std > 0.
\* One value gives std = NaN and equal values give 0 / 0 = NaN: NaN > 3 is False.
outliers(d) ==
  LET I == rev_data(d)
      n == Cardinality(I)
      s == SumCells(d, I, "revenue")
      ss == SumSq(d, I, n, s)
  IN  {i \in I :
         /\ n > 1
         /\ ss > 0
         /\ (n - 1) * (n * d[i]["revenue"] - s) * (n * d[i]["revenue"] - s) > 9 * ss}

Issue(sev, cnt, txt) == [severity |-> sev, count |-> cnt, text |-> txt]

PASSED == Issue("PASSED", 0, "All data quality checks passed.")

\* a run_checks whose checks are an if / elif chain: the first issue ends it
run_checks_elif(d) ==
  IF invalid_ctr(d) # {}
  THEN <<[severity |-> "CRITICAL", count |-> Cardinality(invalid_ctr(d)),
          text |-> "rows where Clicks > Impressions."]>>
  ELSE IF neg_val(d) # {}
  THEN <<[severity |-> "CRITICAL", count |-> Cardinality(neg_val(d)),
          text |-> "rows with negative Revenue or Commission."]>>
  ELSE IF nulls(d) > 0
  THEN <<[severity |-> "WARNING", count |-> nulls(d),
          text |-> "missing values in dataset."]>>
  ELSE IF Cardinality(outliers(d)) > 0
  THEN <<[severity |-> "INFO", count |-> Cardinality(outliers(d)),
          text |-> "revenue outliers (>3 Std Dev)."]>>
  ELSE <<[severity |-> "PASSED", count |-> 0,
          text |-> "All data quality checks passed."]>>

\* issues.append(x) under a condition
AppendIf(issues, cond, x) == IF cond THEN Append(issues, x) ELSE issues

\* a run_checks that appends PASSED without looking at the list
run_checks_always_passed(d) ==
  LET i1 == AppendIf(<<>>, invalid_ctr(d) # {},
              Issue("CRITICAL", Cardinality(invalid_ctr(d)),
                    "rows where Clicks > Impressions."))
      i2 == AppendIf(i1, neg_val(d) # {},
              Issue("CRITICAL", Cardinality(neg_val(d)),
                    "rows with negative Revenue or Commission."))
      i3 == AppendIf(i2, nulls(d) > 0,
              Issue("WARNING", nulls(d), "missing values in dataset."))
      i4 == AppendIf(i3, rev_data(d) # {} /\ Cardinality(outliers(d)) > 0,
              Issue("INFO", Cardinality(outliers(d)),
                    "revenue outliers (>3 Std Dev)."))
  IN  Append(i4, PASSED)

run_checks(d) ==
  LET i1 == AppendIf(<<>>, invalid_ctr(d) # {},
              Issue("CRITICAL", Cardinality(invalid_ctr(d)),
                    "rows where Clicks > Impressions."))
      i2 == AppendIf(i1, neg_val(d) # {},
              Issue("CRITICAL", Cardinality(neg_val(d)),
                    "rows with negative Revenue or Commission."))
      i3 == AppendIf(i2, nulls(d) > 0,
              Issue("WARNING", nulls(d), "missing values in dataset."))
      i4 == AppendIf(i3, rev_data(d) # {} /\ Cardinality(outliers(d)) > 0,
              Issue("INFO", Cardinality(outliers(d)),
                    "revenue outliers (>3 Std Dev)."))
  IN  AppendIf(i4, i4 = <<>>, PASSED)

(* ---------------------------------------------------------------------- *)
(* DataLoader                                                              *)
(* ---------------------------------------------------------------------- *)
\* rows of the traffic table as ingest_and_augment writes them: one per date,
\* campaign, device_type and channel; campaign 5 is not in the campaigns table
TrafficRows ==
  {[campaign_id |-> id, date |-> dt, device_type |-> dev, channel |-> "email",
    impressions |-> 100, clicks |-> 10] :
     id \in {1, 2, 5}, dt \in {"2024-01-01", "2024-01-02"}, dev \in {"desktop", "mobile"}}

\* rows of the conversions table: one per date and campaign
ConversionRows ==
  {[campaign_id |-> id, date |-> dt, orders |-> 1, revenue |-> rev,
    commission_paid |-> 4] :
     id \in {1, 2}, dt \in {"2024-01-01", "2024-01-02"}, rev \in {20, 40}}

\* a table of at most n rows, no row twice
Tables(rows, n) ==
  {t \in UNION {[1..k -> rows] : k \in 0..n} :
     \A i, j \in DOMAIN t : i # j => t[i] # t[j]}

\* one row of the SELECT for traffic row t and the conversions cells o, r, c
JoinedRow(t, o, r, c) ==
  [date |-> t.date, campaign_id |-> t.campaign_id, device_type |-> t.device_type,
   channel |-> t.channel, clicks |-> t.clicks, impressions |-> t.impressions,
   orders |-> o, revenue |-> r, commission_paid |-> c,
   partner_name |-> Campaigns[t.campaign_id].partner_name,
   vertical |-> Campaigns[t.campaign_id].vertical,
   campaign_name |-> Campaigns[t.campaign_id].campaign_name,
   landing_page_variant |-> Campaigns[t.campaign_id].landing_page_variant]

\* the rows traffic row t brings: none if its campaign is unknown (JOIN
\* campaigns), else one per conversions row of its campaign and date, or one
\* with NULL conversions cells if there is none (LEFT JOIN conversions)
RowsOf(t, conv) ==
  LET ms == SelectSeq(conv, LAMBDA c : c.campaign_id = t.campaign_id /\ c.date = t.date)
  IN  IF t.campaign_id \notin DOMAIN Campaigns THEN <<>>
      ELSE IF ms = <<>> THEN <<JoinedRow(t, NaN, NaN, NaN)>>
      ELSE [k \in DOMAIN ms |->
              JoinedRow(t, ms[k].orders, ms[k].revenue, ms[k].commission_paid)]

RECURSIVE Query(_, _, _)
\* pd.read_sql(query, conn) over the first n traffic rows
Query(traf, conv, n) ==
  IF n = 0 THEN <<>> ELSE Query(traf, conv, n - 1) \o RowsOf(traf[n], conv)

\* df.fillna({'orders': 0, 'revenue': 0.0, 'commission_paid': 0.0})
fillna_columns(row) ==
  [c \in DOMAIN row |->
     IF c \in {"orders", "revenue", "commission_paid"} /\ row[c] = NaN
     THEN 0 ELSE row[c]]

\* DataLoader.get_data; the Timestamp of a date is written as the date itself
get_data(traf, conv) ==
  LET q == Query(traf, conv, Len(traf))
  IN  [i \in DOMAIN q |-> fillna_columns(q[i])]

(* ---------------------------------------------------------------------- *)
(* The calls on one frame                                                  *)
(* ---------------------------------------------------------------------- *)
VARIABLES
  df,             \* the DataFrame the callers hold and pass to every call
  called,         \* the operations that have returned at least once
  repeated,       \* TRUE once an operation has been called a second time
  kpis,           \* last return value of KPIEngine.calculate_kpis(df)
  partner_perf,   \* last return value of KPIEngine.get_partner_performance(df)
  camp_perf,      \* last return value of KPIEngine.get_campaign_performance(df)
  issues,         \* last return value of DataQuality.run_checks(df)
  traffic,        \* the traffic table of the database
  conversions     \* the conversions table of the database

vars ==
  <<df, called, repeated, kpis, partner_perf, camp_perf, issues, traffic, conversions>>

Init ==
  /\ df \in Frames
  /\ called = {}
  /\ repeated = FALSE
  /\ kpis = <<>>
  /\ partner_perf = <<>>
  /\ camp_perf = <<>>
  /\ issues = <<>>
  /\ traffic = <<>>
  /\ conversions = <<>>

\* the bookkeeping of a call of operation op; no operation writes to the database
Returned(op) ==
  /\ called' = called \cup {op}
  /\ repeated' = (repeated \/ op \in called)
  /\ UNCHANGED <<traffic, conversions>>

\* a calculate_kpis that keeps its totals in a class attribute and adds to them
CallCalculateKpisAccumulating ==
  /\ kpis' = IF "calculate_kpis" \in called
             THEN [kpis |-> calculate_kpis(df).kpis,
                   metrics |-> [c \in MetricColumns |->
                                  kpis.metrics[c] + calculate_kpis(df).metrics[c]]]
             ELSE calculate_kpis(df)
  /\ Returned("calculate_kpis")
  /\ UNCHANGED <<df, partner_perf, camp_perf, issues>>

CallCalculateKpis ==
  /\ kpis' = calculate_kpis(df)
  /\ Returned("calculate_kpis")
  /\ UNCHANGED <<df, partner_perf, camp_perf, issues>>

CallPartnerPerformance ==
  /\ partner_perf' = get_partner_performance(df)
  /\ Returned("get_partner_performance")
  /\ UNCHANGED <<df, kpis, camp_perf, issues>>

CallCampaignPerformance ==
  /\ camp_perf' = get_campaign_performance(df)
  /\ Returned("get_campaign_performance")
  /\ UNCHANGED <<df, kpis, partner_perf, issues>>

\* a run_checks that drops the rows it reports as Clicks > Impressions
CallRunChecksRepairing ==
  /\ issues' = run_checks(df)
  /\ Returned("run_checks")
  /\ df' = SelectSeq(df, LAMBDA r : ~Gt(r["clicks"], r["impressions"]))
  /\ UNCHANGED <<kpis, partner_perf, camp_perf>>

CallRunChecks ==
  /\ issues' = run_checks(df)
  /\ Returned("run_checks")
  /\ UNCHANGED <<df, kpis, partner_perf, camp_perf>>

Next ==
  \/ CallCalculateKpis
  \/ CallPartnerPerformance
  \/ CallCampaignPerformance
  \/ CallRunChecks

Spec == Init /\ [][Next]_vars

\* the loader on a database: nothing is loaded yet
InitLoader ==
  /\ traffic \in Tables(TrafficRows, MaxTraffic)
  /\ conversions \in Tables(ConversionRows, MaxConversions)
  /\ df = <<>>
  /\ called = {}
  /\ repeated = FALSE
  /\ kpis = <<>>
  /\ partner_perf = <<>>
  /\ camp_perf = <<>>
  /\ issues = <<>>

CallGetData ==
  /\ df' = get_data(traffic, conversions)
  /\ Returned("get_data")
  /\ UNCHANGED <<kpis, partner_perf, camp_perf, issues>>

NextLoader == CallGetData

SpecLoader == InitLoader /\ [][NextLoader]_vars

(* ---------------------------------------------------------------------- *)
(* Properties                                                              *)
(* ---------------------------------------------------------------------- *)
RECURSIVE ColumnTotalUpTo(_, _, _)
\* the total of the present cells of column c over the first n rows of d
ColumnTotalUpTo(d, c, n) ==
  IF n = 0 THEN 0
  ELSE ColumnTotalUpTo(d, c, n - 1) + (IF d[n][c] = NaN THEN 0 ELSE d[n][c])

ColumnTotal(d, c) == ColumnTotalUpTo(d, c, Len(d))

\* q is the finite number a / b, for b > 0
IsRatioOf(q, a, b) == q.den > 0 /\ q.num * b = q.den * a

\* C1: calculate_kpis returns as MetricTotals the column sums over all records,
\* and every ratio whose denominator total is > 0 is the ratio of the two totals
\* (CTR = clicks/impressions, Conversion_Rate = orders/clicks, EPC = revenue/clicks,
\* AOV = revenue/orders, ROI = (revenue - commission_paid)/commission_paid).
C1_KpisAreRatiosOfTotals ==
  "calculate_kpis" \in called =>
    LET imp == ColumnTotal(df, "impressions")
        clk == ColumnTotal(df, "clicks")
        ord == ColumnTotal(df, "orders")
        rev == ColumnTotal(df, "revenue")
        com == ColumnTotal(df, "commission_paid")
    IN  /\ kpis.metrics["impressions"] = imp
        /\ kpis.metrics["clicks"] = clk
        /\ kpis.metrics["orders"] = ord
        /\ kpis.metrics["revenue"] = rev
        /\ kpis.metrics["commission_paid"] = com
        /\ imp > 0 => IsRatioOf(kpis.kpis.CTR, clk, imp)
        /\ clk > 0 => IsRatioOf(kpis.kpis.Conversion_Rate, ord, clk)
        /\ clk > 0 => IsRatioOf(kpis.kpis.EPC, rev, clk)
        /\ ord > 0 => IsRatioOf(kpis.kpis.AOV, rev, ord)
        /\ com > 0 => IsRatioOf(kpis.kpis.ROI, rev - com, com)

\* clicks = [10, 0] and impressions = [100, 50]: CTR is 10/150 = 1/15, where the
\* average of the two per-row ratios would be 1/20
C1_Witness ==
  /\ "calculate_kpis" \in called
  /\ Len(df) = 2
  /\ df[1]["clicks"] = 10 /\ df[1]["impressions"] = 100
  /\ df[2]["clicks"] = 0 /\ df[2]["impressions"] = 50
  /\ kpis.kpis.CTR = [num |-> 1, den |-> 15]

\* C2: calculate_kpis returns a finite number for every ratio, and 0.0 for every
\* ratio whose denominator total is zero or negative; on the empty frame the five
\* totals and the five ratios are all 0.
C2_SafeDivideFallsBackToZero ==
  "calculate_kpis" \in called =>
    LET m == kpis.metrics
        k == kpis.kpis
    IN  /\ \A r \in RatioColumns : IsFinite(k[r])
        /\ m["impressions"] <= 0 => k.CTR = Zero
        /\ m["clicks"] <= 0 => k.Conversion_Rate = Zero /\ k.EPC = Zero
        /\ m["orders"] <= 0 => k.AOV = Zero
        /\ m["commission_paid"] <= 0 => k.ROI = Zero
        /\ df = <<>> => /\ \A c \in MetricColumns : m[c] = 0
                        /\ \A r \in RatioColumns : k[r] = Zero

C2_Witness ==
  /\ "calculate_kpis" \in called
  /\ df = <<>>
  /\ \A r \in RatioColumns : kpis.kpis[r] = Zero

\* C3: no ratio cell of a row of get_partner_performance or
\* get_campaign_performance is NaN or infinite, and a group whose clicks total is
\* zero has CTR = 0, EPC = 0 and Conversion_Rate = 0.
C3_GroupedRatiosAreFinite ==
  /\ "get_partner_performance" \in called =>
        \A n \in DOMAIN partner_perf :
          /\ \A r \in RatioColumns : IsFinite(partner_perf[n][r])
          /\ partner_perf[n]["clicks"] = 0 =>
                /\ partner_perf[n]["CTR"] = Zero
                /\ partner_perf[n]["EPC"] = Zero
                /\ partner_perf[n]["Conversion_Rate"] = Zero
  /\ "get_campaign_performance" \in called =>
        \A n \in DOMAIN camp_perf :
          /\ \A r \in RatioColumns \ {"AOV"} : IsFinite(camp_perf[n][r])
          /\ camp_perf[n]["clicks"] = 0 =>
                /\ camp_perf[n]["CTR"] = Zero
                /\ camp_perf[n]["EPC"] = Zero
                /\ camp_perf[n]["Conversion_Rate"] = Zero

RECURSIVE TableTotalUpTo(_, _, _)
\* the total of column c over the first n rows of a grouped table
TableTotalUpTo(t, c, n) ==
  IF n = 0 THEN 0 ELSE TableTotalUpTo(t, c, n - 1) + t[n][c]

TableTotal(t, c) == TableTotalUpTo(t, c, Len(t))

HasKey(d, k1, k2) == \A i \in DOMAIN d : d[i][k1] # None /\ d[i][k2] # None

\* C4: when every record has a group key, the group totals of
\* get_partner_performance (and of get_campaign_performance) add up, column by
\* column, to the MetricTotals of calculate_kpis on the same frame.
C4_GroupTotalsAddUpToMetricTotals ==
  /\ ( /\ {"calculate_kpis", "get_partner_performance"} \subseteq called
       /\ HasKey(df, "partner_name", "vertical") ) =>
        \A c \in MetricColumns : TableTotal(partner_perf, c) = kpis.metrics[c]
  /\ ( /\ {"calculate_kpis", "get_campaign_performance"} \subseteq called
       /\ HasKey(df, "campaign_name", "landing_page_variant") ) =>
        \A c \in MetricColumns : TableTotal(camp_perf, c) = kpis.metrics[c]

\* a frame of more than two rows that falls into two partner groups and two
\* campaign groups, all three operations having returned
C4_Witness ==
  /\ {"calculate_kpis", "get_partner_performance", "get_campaign_performance"}
        \subseteq called
  /\ HasKey(df, "partner_name", "vertical")
  /\ HasKey(df, "campaign_name", "landing_page_variant")
  /\ Len(df) > 2
  /\ Len(partner_perf) = 2
  /\ Len(camp_perf) = 2
  /\ kpis.metrics["revenue"] > 0

RECURSIVE FirstSeenUpTo(_, _, _, _)
\* the distinct keys of the first n rows of d, each at its first appearance; a
\* row with a missing key field has no key
FirstSeenUpTo(d, k1, k2, n) ==
  IF n = 0 THEN <<>>
  ELSE LET prev == FirstSeenUpTo(d, k1, k2, n - 1)
           key == <<d[n][k1], d[n][k2]>>
       IN  IF \/ d[n][k1] = None
              \/ d[n][k2] = None
              \/ \E j \in DOMAIN prev : prev[j] = key
           THEN prev
           ELSE Append(prev, key)

KeysOf(t, k1, k2) == [n \in DOMAIN t |-> <<t[n][k1], t[n][k2]>>]

\* C5 as stated: one row per distinct group key of the input, in the order in
\* which each key first appears in the input.
C5_RowsInFirstAppearanceOrder ==
  /\ "get_partner_performance" \in called =>
        KeysOf(partner_perf, "partner_name", "vertical")
          = FirstSeenUpTo(df, "partner_name", "vertical", Len(df))
  /\ "get_campaign_performance" \in called =>
        KeysOf(camp_perf, "campaign_name", "landing_page_variant")
          = FirstSeenUpTo(df, "campaign_name", "landing_page_variant", Len(df))

\* keys is strictly ascending in the order of (first field, second field)
Ascending(keys) ==
  \A m, n \in DOMAIN keys :
    m < n => \/ StrRank(keys[m][1]) < StrRank(keys[n][1])
             \/ /\ keys[m][1] = keys[n][1]
                /\ StrRank(keys[m][2]) < StrRank(keys[n][2])

PresentKeys(d, k1, k2) ==
  {<<d[i][k1], d[i][k2]>> : i \in {j \in DOMAIN d : d[j][k1] # None /\ d[j][k2] # None}}

Range(f) == {f[x] : x \in DOMAIN f}

\* C5 (amended): the grouped operations return exactly one row per distinct group
\* key whose two fields are both present, in ascending order of the key,
\* whatever the order of the records in the input.
C5_RowsInAscendingKeyOrder ==
  /\ "get_partner_performance" \in called =>
        LET keys == KeysOf(partner_perf, "partner_name", "vertical")
        IN  /\ Range(keys) = PresentKeys(df, "partner_name", "vertical")
            /\ Ascending(keys)
  /\ "get_campaign_performance" \in called =>
        LET keys == KeysOf(camp_perf, "campaign_name", "landing_page_variant")
        IN  /\ Range(keys) = PresentKeys(df, "campaign_name", "landing_page_variant")
            /\ Ascending(keys)

\* Zappos comes first in the input and second in both tables
C5_Witness ==
  /\ {"get_partner_performance", "get_campaign_performance"} \subseteq called
  /\ Len(df) = 2
  /\ df[1]["partner_name"] = "Zappos" /\ df[2]["partner_name"] = "Amazon"
  /\ Len(partner_perf) = 2
  /\ partner_perf[1]["partner_name"] = "Amazon"
  /\ partner_perf[2]["partner_name"] = "Zappos"
  /\ Len(camp_perf) = 2
  /\ camp_perf[1]["campaign_name"] = "Summer"
  /\ camp_perf[2]["campaign_name"] = "Winter"

\* C6: a row of get_campaign_performance has the two key fields, the five totals
\* and the ratios CTR, Conversion_Rate, EPC and ROI and no AOV; a row of
\* get_partner_performance has its two key fields, the five totals and all five
\* ratios.
C6_CampaignRowsHaveNoAOV ==
  /\ "get_campaign_performance" \in called =>
        \A n \in DOMAIN camp_perf :
          DOMAIN camp_perf[n] =
            {"campaign_name", "landing_page_variant", "impressions", "clicks",
             "orders", "revenue", "commission_paid",
             "CTR", "Conversion_Rate", "EPC", "ROI"}
  /\ "get_partner_performance" \in called =>
        \A n \in DOMAIN partner_perf :
          DOMAIN partner_perf[n] =
            {"partner_name", "vertical", "impressions", "clicks",
             "orders", "revenue", "commission_paid",
             "CTR", "Conversion_Rate", "EPC", "AOV", "ROI"}

C6_Witness ==
  /\ {"get_partner_performance", "get_campaign_performance"} \subseteq called
  /\ Len(camp_perf) > 0
  /\ Len(partner_perf) > 0
  /\ "AOV" \notin DOMAIN camp_perf[1]
  /\ "AOV" \in DOMAIN partner_perf[1]

AllOperations ==
  {"calculate_kpis", "get_partner_performance", "get_campaign_performance", "run_checks"}

\* C7: a call of calculate_kpis, get_partner_performance or
\* get_campaign_performance returns what the earlier call of the same operation
\* on the frame returned, whatever was called in between.
C7_RepeatedCallsAgree ==
  [][ /\ "calculate_kpis" \in called => kpis' = kpis
      /\ "get_partner_performance" \in called => partner_perf' = partner_perf
      /\ "get_campaign_performance" \in called => camp_perf' = camp_perf ]_vars

\* every operation has been called, one of them twice, on a frame with groups
C7_Witness ==
  /\ called = AllOperations
  /\ repeated
  /\ Len(df) > 1
  /\ Len(partner_perf) > 1
  /\ Len(camp_perf) > 1
  /\ kpis.metrics["clicks"] > 0

\* C8: no call changes the frame it is given.
C8_CallsLeaveFrameUnchanged == [][df' = df]_vars

\* every operation has returned, the zero fill has replaced a NaN ratio in the
\* partner table, and the frame still holds a record with a missing cell and a
\* negative revenue
C8_Witness ==
  /\ called = AllOperations
  /\ \E i \in DOMAIN df : df[i]["impressions"] = NaN /\ df[i]["revenue"] < 0
  /\ Len(partner_perf) = 1
  /\ partner_perf[1]["impressions"] = 0
  /\ partner_perf[1]["CTR"] = Zero
  /\ \E i \in DOMAIN issues : issues[i].severity = "WARNING"

HasIssue(l, txt) == \E i \in DOMAIN l : l[i].text = txt

\* C9: the list run_checks returns is never empty; it contains the PASSED issue
\* exactly when it contains no CRITICAL, WARNING or INFO issue, which is when
\* each of the four checks counted nothing, and then it is the one-element list
\* of PASSED; this is the result on the empty frame.
C9_PassedOnlyWhenNothingElse ==
  "run_checks" \in called =>
    /\ Len(issues) > 0
    /\ (\E i \in DOMAIN issues : issues[i] = PASSED)
         <=> (\A i \in DOMAIN issues :
                issues[i].severity \notin {"CRITICAL", "WARNING", "INFO"})
    /\ (\E i \in DOMAIN issues : issues[i] = PASSED) => issues = <<PASSED>>
    /\ (\E i \in DOMAIN issues : issues[i] = PASSED)
         <=> /\ invalid_ctr(df) = {}
             /\ neg_val(df) = {}
             /\ nulls(df) = 0
             /\ outliers(df) = {}
    /\ df = <<>> => issues = <<PASSED>>

C9_Witness ==
  /\ "run_checks" \in called
  /\ df = <<>>
  /\ issues = <<PASSED>>

\* the position of each kind of issue in the fixed order of the checks
CheckNumber(issue) ==
  CASE issue.text = "rows where Clicks > Impressions." -> 1
    [] issue.text = "rows with negative Revenue or Commission." -> 2
    [] issue.text = "missing values in dataset." -> 3
    [] issue.text = "revenue outliers (>3 Std Dev)." -> 4
    [] OTHER -> 5

\* C10: each of the four issues is in the list exactly when its own count is
\* > 0, whatever the other checks found, and the issues are in the order of the
\* checks: Clicks > Impressions, negative values, missing values, outliers.
C10_EveryCheckRunsInOrder ==
  "run_checks" \in called =>
    /\ HasIssue(issues, "rows where Clicks > Impressions.")
         <=> Cardinality(invalid_ctr(df)) > 0
    /\ HasIssue(issues, "rows with negative Revenue or Commission.")
         <=> Cardinality(neg_val(df)) > 0
    /\ HasIssue(issues, "missing values in dataset.") <=> nulls(df) > 0
    /\ HasIssue(issues, "revenue outliers (>3 Std Dev).")
         <=> Cardinality(outliers(df)) > 0
    /\ \A i, j \in DOMAIN issues :
          i < j => CheckNumber(issues[i]) < CheckNumber(issues[j])
    /\ \A i \in DOMAIN issues :
          issues[i].severity =
            CASE CheckNumber(issues[i]) \in {1, 2} -> "CRITICAL"
              [] CheckNumber(issues[i]) = 3 -> "WARNING"
              [] CheckNumber(issues[i]) = 4 -> "INFO"
              [] OTHER -> "PASSED"

\* all four checks emit on one frame
C10_Witness ==
  /\ "run_checks" \in called
  /\ Len(issues) = 4
  /\ issues[1].severity = "CRITICAL" /\ issues[1].count > 0
  /\ issues[2].severity = "CRITICAL" /\ issues[2].count > 0
  /\ issues[3].severity = "WARNING" /\ issues[3].count > 0
  /\ issues[4].severity = "INFO" /\ issues[4].count > 0

RECURSIVE MissingCellsUpTo(_, _)
\* the number of missing cells in the first n rows of d, row by row
MissingCellsUpTo(d, n) ==
  IF n = 0 THEN 0
  ELSE MissingCellsUpTo(d, n - 1) + Cardinality({c \in Columns : isnull(d[n], c)})

Negative(x) == x # NaN /\ x < 0

\* C11: the count in each integrity issue is exact: the number of records with
\* clicks > impressions, the number of records with a negative revenue or
\* commission_paid (a record with both is counted once), the number of missing
\* cells over all columns and records; the single record clicks = 20,
\* impressions = 10 gives a CRITICAL issue with count 1 and no PASSED issue.
C11_IssueCountsAreExact ==
  "run_checks" \in called =>
    /\ \A i \in DOMAIN issues :
          /\ issues[i].text = "rows where Clicks > Impressions." =>
                issues[i].count =
                  Cardinality({j \in DOMAIN df :
                                 /\ df[j]["clicks"] # NaN
                                 /\ df[j]["impressions"] # NaN
                                 /\ df[j]["clicks"] > df[j]["impressions"]})
          /\ issues[i].text = "rows with negative Revenue or Commission." =>
                issues[i].count =
                  Cardinality({j \in DOMAIN df : Negative(df[j]["revenue"])})
                  + Cardinality({j \in DOMAIN df : Negative(df[j]["commission_paid"])})
                  - Cardinality({j \in DOMAIN df :
                                   /\ Negative(df[j]["revenue"])
                                   /\ Negative(df[j]["commission_paid"])})
          /\ issues[i].text = "missing values in dataset." =>
                issues[i].count = MissingCellsUpTo(df, Len(df))
    /\ (Len(df) = 1 /\ df[1]["clicks"] = 20 /\ df[1]["impressions"] = 10) =>
          /\ \E i \in DOMAIN issues :
                issues[i].severity = "CRITICAL" /\ issues[i].count = 1
          /\ \A i \in DOMAIN issues : issues[i].severity # "PASSED"

C11_Witness ==
  /\ "run_checks" \in called
  /\ Len(df) = 1
  /\ df[1]["clicks"] = 20 /\ df[1]["impressions"] = 10
  /\ issues = <<Issue("CRITICAL", 1, "rows where Clicks > Impressions.")>>

RevenueColumn(d) == [i \in DOMAIN d |-> d[i]["revenue"]]

\* C12 as stated: revenue values [10,10,10,10,1000] give an INFO outlier issue
\* with count >= 1, revenue values [10,10,10] give none.
C12_ExtremeValueIsReported ==
  "run_checks" \in called =>
    /\ RevenueColumn(df) = <<10, 10, 10, 10, 1000>> =>
          \E i \in DOMAIN issues : issues[i].severity = "INFO" /\ issues[i].count >= 1
    /\ RevenueColumn(df) = <<10, 10, 10>> =>
          \A i \in DOMAIN issues : issues[i].severity # "INFO"

\* C12 (amended): neither revenue values [10,10,10,10,1000] nor revenue values
\* [10,10,10] give an INFO outlier issue.
C12_NoOutlierInFiveValues ==
  "run_checks" \in called =>
    (RevenueColumn(df) \in {<<10, 10, 10, 10, 1000>>, <<10, 10, 10>>} =>
       \A i \in DOMAIN issues : issues[i].severity # "INFO")

C12_Witness ==
  /\ "run_checks" \in called
  /\ RevenueColumn(df) = <<10, 10, 10, 10, 1000>>
  /\ issues = <<PASSED>>

PositiveRevenue(d) == {i \in DOMAIN d : d[i]["revenue"] # NaN /\ d[i]["revenue"] > 0}

RECURSIVE PowerSumUpTo(_, _, _)
\* the sum of revenue (p = 1) or of revenue squared (p = 2) over the records
\* with revenue > 0 among the first n rows of d
PowerSumUpTo(d, p, n) ==
  IF n = 0 THEN 0
  ELSE PowerSumUpTo(d, p, n - 1)
       + (IF n \in PositiveRevenue(d)
          THEN (IF p = 1 THEN d[n]["revenue"] ELSE d[n]["revenue"] * d[n]["revenue"])
          ELSE 0)

\* |x - mean| > 3 * std for n values of sum s and sum of squares q, where
\* mean = s / n and std^2 = (q - s^2 / n) / (n - 1)
FarFromMean(x, n, s, q) ==
  n > 1 /\ (n - 1) * (n * x - s) * (n * x - s) > 9 * n * (n * q - s * s)

\* C13: the outlier check looks at the records with revenue > 0 only: INFO is
\* emitted exactly when one of them lies more than 3 sample standard deviations
\* from their mean, and its count is the number of such records; with a zero
\* or undefined standard deviation, or no positive revenue, there is no INFO,
\* and every count in the list is a number.
C13_OutliersAmongPositiveRevenue ==
  "run_checks" \in called =>
    LET n == Cardinality(PositiveRevenue(df))
        s == PowerSumUpTo(df, 1, Len(df))
        q == PowerSumUpTo(df, 2, Len(df))
        far == {i \in PositiveRevenue(df) : FarFromMean(df[i]["revenue"], n, s, q)}
        info == {i \in DOMAIN issues : issues[i].severity = "INFO"}
    IN  /\ info # {} <=> far # {}
        /\ \A i \in info : issues[i].count = Cardinality(far)
        /\ (n <= 1 \/ n * q = s * s) => info = {}
        /\ \A i \in DOMAIN issues : issues[i].count \in Nat

\* an outlier is reported on a frame that also holds a record with revenue 0,
\* which would pull mean and deviation enough to hide it
C13_Witness ==
  /\ "run_checks" \in called
  /\ \E i \in DOMAIN df : df[i]["revenue"] = 0
  /\ \E i \in DOMAIN issues : issues[i].severity = "INFO" /\ issues[i].count = 1

\* every metric cell of d is present and >= 0, and all records have the key of
\* the first one
OneGroupNonNegative(d, k1, k2) ==
  /\ Len(d) > 0
  /\ HasKey(d, k1, k2)
  /\ \A i \in DOMAIN d :
        /\ d[i][k1] = d[1][k1] /\ d[i][k2] = d[1][k2]
        /\ \A c \in MetricColumns : d[i][c] # NaN /\ d[i][c] >= 0

\* C14: on a frame of non-negative metrics whose records share one
\* (partner_name, vertical) key, the single row of get_partner_performance has
\* the five totals and the five ratios that calculate_kpis returns.
C14_SingleGroupRowEqualsKpis ==
  ( /\ {"calculate_kpis", "get_partner_performance"} \subseteq called
    /\ OneGroupNonNegative(df, "partner_name", "vertical") ) =>
      /\ Len(partner_perf) = 1
      /\ \A c \in MetricColumns : partner_perf[1][c] = kpis.metrics[c]
      /\ \A r \in RatioColumns : partner_perf[1][r] = kpis.kpis[r]

\* C15: a frame with at most 10 records of revenue > 0 gets no INFO outlier
\* issue, whatever the revenue values are.
C15_NoOutlierUpToTenValues ==
  ("run_checks" \in called /\ Cardinality(PositiveRevenue(df)) <= 10) =>
    \A i \in DOMAIN issues : issues[i].severity # "INFO"

\* ten positive revenues, nine equal and one apart (the arrangement with the
\* largest possible z-score, 9 / sqrt(10)), and no INFO issue
C15_Witness ==
  /\ "run_checks" \in called
  /\ Cardinality(PositiveRevenue(df)) = 10
  /\ \E i, j \in DOMAIN df :
        /\ df[i]["revenue"] = 20
        /\ df[j]["revenue"] = 40
  /\ \A i \in DOMAIN issues : issues[i].severity # "INFO"

\* conversions row c has a traffic row of its campaign and date that the query keeps
HasTraffic(c) ==
  \E i \in DOMAIN traffic :
    /\ traffic[i].campaign_id = c.campaign_id
    /\ traffic[i].date = c.date
    /\ traffic[i].campaign_id \in DOMAIN Campaigns

RECURSIVE MatchedTotalUpTo(_, _)
\* the total of column c over the first n conversions rows that have traffic
MatchedTotalUpTo(c, n) ==
  IF n = 0 THEN 0
  ELSE MatchedTotalUpTo(c, n - 1)
       + (IF HasTraffic(conversions[n]) THEN conversions[n][c] ELSE 0)

\* C16: the frame get_data returns counts every conversions row at most once:
\* its totals of orders, revenue and commission_paid are the totals over the
\* conversions rows that have traffic, also with several traffic rows for one
\* (campaign_id, date); a traffic row without a conversions row gives a record
\* with orders = 0, revenue = 0.0 and commission_paid = 0.0.
C16_ConversionsCountedOnce ==
  "get_data" \in called =>
    /\ \A c \in {"orders", "revenue", "commission_paid"} :
          ColumnTotal(df, c) = MatchedTotalUpTo(c, Len(conversions))
    /\ \A i \in DOMAIN traffic :
          ( /\ traffic[i].campaign_id \in DOMAIN Campaigns
            /\ \A j \in DOMAIN conversions :
                  \/ conversions[j].campaign_id # traffic[i].campaign_id
                  \/ conversions[j].date # traffic[i].date ) =>
            \E n \in DOMAIN df :
              /\ df[n]["campaign_id"] = traffic[i].campaign_id
              /\ df[n]["date"] = traffic[i].date
              /\ df[n]["device_type"] = traffic[i].device_type
              /\ df[n]["orders"] = 0
              /\ df[n]["revenue"] = 0
              /\ df[n]["commission_paid"] = 0

====
